---- MODULE Spec2Model ----
(***************************************************************************)
(* TorchDistributedTrial (optuna/integration/pytorch_distributed.py):      *)
(* every rank of a torch.distributed process group calls the same Trial    *)
(* operation; rank 0 alone runs it on the wrapped optuna Trial and the     *)
(* result reaches the other ranks through dist.broadcast, or the ranks     *)
(* meet in dist.barrier when the operation returns nothing.                *)
(***************************************************************************)
EXTENDS Integers, Sequences, FiniteSets, TLC

\* ------------------------------------------------------------------ bounds
\* Largest process group explored (ranks 0 .. MaxGroup-1).
MaxGroup == 2
\* Number of Trial operations every rank calls in a run.
MaxOps == 2
\* Length of the long payload, above 64 KiB.
LargeLen == 65537

\* ------------------------------------------------- Python values (the heap)
\* A Python value is a record [t, n, s, d]: t the type, n the number of an
\* int, s the characters of a str or the 8 big-endian IEEE-754 bytes of a
\* float, d the items of a dict in insertion order (keys are str, values are
\* atoms).  An atom is the same without d.
Atom(t, n, s) == [t |-> t, n |-> n, s |-> s]
Val(t, n, s, d) == [t |-> t, n |-> n, s |-> s, d |-> d]
PyNone == Val("none", 0, <<>>, <<>>)
PyInt(n) == Val("int", n, <<>>, <<>>)
PyFloat(bytes) == Val("float", 0, bytes, <<>>)
PyStr(chars) == Val("str", 0, chars, <<>>)
PyDict(items) == Val("dict", 0, <<>>, items)
PyError == Val("error", 0, <<>>, <<>>)
Mark == Val("mark", 0, <<>>, <<>>)
AtomOf(v) == Atom(v.t, v.n, v.s)
ValOf(a) == Val(a.t, a.n, a.s, <<>>)
Item(k, a) == [k |-> k, v |-> a]

\* 0.5, 5.0 and -5.0 as IEEE-754 doubles, and a double that float32 cannot
\* hold exactly (0.1 = 0x3FB999999999999A).
F_half == <<63, 224, 0, 0, 0, 0, 0, 0>>
F_five == <<64, 20, 0, 0, 0, 0, 0, 0>>
F_mfive == <<192, 20, 0, 0, 0, 0, 0, 0>>
F_tenth == <<63, 185, 153, 153, 153, 153, 153, 154>>

\* ------------------------------------------------------------------ pickle
\* pickle.dumps / pickle.loads, protocol 4, for the values above.
RECURSIVE LE(_, _)
LE(n, k) == IF k = 0 THEN <<>> ELSE <<n % 256>> \o LE(n \div 256, k - 1)

RECURSIVE FromLE(_)
FromLE(bs) == IF bs = <<>> THEN 0 ELSE bs[1] + 256 * FromLE(Tail(bs))

\* 4-byte little-endian two's complement of n, -2^31 <= n < 2^31.
LE4Signed(n) ==
    IF n >= 0 THEN LE(n, 4)
    ELSE LET m == n + 2147483647 + 1   \* n + 2^31, in 0 .. 2^31-1
             lo == LE(m, 4)
         IN  <<lo[1], lo[2], lo[3], lo[4] + 128>>

FromLE4Signed(bs) ==
    IF bs[4] < 128 THEN FromLE(bs)
    ELSE FromLE(<<bs[1], bs[2], bs[3], bs[4] - 128>>) - 2147483647 - 1

SaveAtom(a) ==
    CASE a.t = "none" -> <<78>>                                    \* NONE
      [] a.t = "int" ->
            IF a.n >= 0 /\ a.n < 256 THEN <<75, a.n>>              \* BININT1
            ELSE IF a.n >= 256 /\ a.n < 65536 THEN <<77>> \o LE(a.n, 2)  \* BININT2
            ELSE <<74>> \o LE4Signed(a.n)                          \* BININT
      [] a.t = "float" -> <<71>> \o a.s                            \* BINFLOAT
      [] a.t = "str" ->
            IF Len(a.s) < 256
            THEN <<140, Len(a.s)>> \o a.s \o <<148>>               \* SHORT_BINUNICODE, MEMOIZE
            ELSE <<88>> \o LE(Len(a.s), 4) \o a.s \o <<148>>       \* BINUNICODE, MEMOIZE

RECURSIVE SaveItems(_)
SaveItems(items) ==
    IF items = <<>> THEN <<>>
    ELSE SaveAtom(Atom("str", 0, items[1].k)) \o SaveAtom(items[1].v)
         \o SaveItems(Tail(items))

Save(v) ==
    IF v.t = "dict"
    THEN <<125, 148>> \o                                           \* EMPTY_DICT, MEMOIZE
         (CASE Len(v.d) = 0 -> <<>>
            [] Len(v.d) = 1 -> SaveItems(v.d) \o <<115>>           \* SETITEM
            [] OTHER -> <<40>> \o SaveItems(v.d) \o <<117>>)       \* MARK .. SETITEMS
    ELSE SaveAtom(AtomOf(v))

pickle_dumps(v) ==
    LET body == Save(v) \o <<46>>                                  \* STOP
    IN  <<128, 4>> \o                                              \* PROTO 4
        (IF Len(body) >= 4 THEN <<149>> \o LE(Len(body), 8) \o body   \* FRAME
         ELSE body)

\* dict[k] = a: an existing key keeps its place, a new key goes last.
RECURSIVE DictSet(_, _, _)
DictSet(items, k, a) ==
    IF items = <<>> THEN <<Item(k, a)>>
    ELSE IF items[1].k = k THEN <<Item(k, a)>> \o Tail(items)
    ELSE <<items[1]>> \o DictSet(Tail(items), k, a)

RECURSIVE SetAll(_, _)
SetAll(items, kvs) ==
    IF Len(kvs) < 2 THEN items
    ELSE SetAll(DictSet(items, kvs[1].s, AtomOf(kvs[2])), SubSeq(kvs, 3, Len(kvs)))

\* Index of the topmost MARK of the stack (0 when there is none).
RECURSIVE TopMark(_, _)
TopMark(stack, i) ==
    IF i = 0 THEN 0 ELSE IF stack[i].t = "mark" THEN i ELSE TopMark(stack, i - 1)

\* The unpickling machine: b the bytes, i the next position, stack its stack.
RECURSIVE Load(_, _, _)
Load(b, i, stack) ==
    LET n == Len(stack)
        has(k) == i + k <= Len(b)
        arg(k) == SubSeq(b, i + 1, i + k)
    IN
    IF i > Len(b) THEN PyError                                     \* EOFError
    ELSE CASE b[i] = 128 /\ has(1) -> Load(b, i + 2, stack)        \* PROTO
      [] b[i] = 149 /\ has(8) -> Load(b, i + 9, stack)             \* FRAME
      [] b[i] = 78 -> Load(b, i + 1, Append(stack, PyNone))
      [] b[i] = 75 /\ has(1) -> Load(b, i + 2, Append(stack, PyInt(b[i + 1])))
      [] b[i] = 77 /\ has(2) -> Load(b, i + 3, Append(stack, PyInt(FromLE(arg(2)))))
      [] b[i] = 74 /\ has(4) -> Load(b, i + 5, Append(stack, PyInt(FromLE4Signed(arg(4)))))
      [] b[i] = 71 /\ has(8) -> Load(b, i + 9, Append(stack, PyFloat(arg(8))))
      [] b[i] = 140 /\ has(1) /\ has(1 + b[i + 1]) ->
            Load(b, i + 2 + b[i + 1],
                 Append(stack, PyStr(SubSeq(b, i + 2, i + 1 + b[i + 1]))))
      [] b[i] = 88 /\ has(4) /\ has(4 + FromLE(arg(4))) ->
            Load(b, i + 5 + FromLE(arg(4)),
                 Append(stack, PyStr(SubSeq(b, i + 5, i + 4 + FromLE(arg(4))))))
      [] b[i] = 148 /\ n >= 1 -> Load(b, i + 1, stack)             \* MEMOIZE
      [] b[i] = 125 -> Load(b, i + 1, Append(stack, PyDict(<<>>)))
      [] b[i] = 40 -> Load(b, i + 1, Append(stack, Mark))
      [] b[i] = 115 /\ n >= 3 /\ stack[n - 2].t = "dict" /\ stack[n - 1].t = "str" ->
            Load(b, i + 1,
                 Append(SubSeq(stack, 1, n - 3),
                        PyDict(DictSet(stack[n - 2].d, stack[n - 1].s, AtomOf(stack[n])))))
      [] b[i] = 117 /\ TopMark(stack, n) >= 2 /\ stack[TopMark(stack, n) - 1].t = "dict" ->
            LET m == TopMark(stack, n)
            IN  Load(b, i + 1,
                     Append(SubSeq(stack, 1, m - 2),
                            PyDict(SetAll(stack[m - 1].d, SubSeq(stack, m + 1, n)))))
      [] b[i] = 46 /\ n >= 1 -> stack[n]                           \* STOP
      [] OTHER -> PyError                                          \* UnpicklingError

pickle_loads(b) == Load(b, 1, <<>>)

\* --------------------------------------------------------- dtype conversion
\* A tensor is [dtype, data]; data holds one integer per element for the
\* integer dtypes and the 4 big-endian IEEE-754 bytes of each element for
\* torch.float.  NoTensor is the Python None a buffer name is bound to.
Tensor(dtype, data) == [dtype |-> dtype, data |-> data]
NoTensor == Tensor("None", <<>>)

\* double -> float32, round to nearest even (normal range and zero).
F32Bytes(d) ==
    LET sign == d[1] \div 128
        exp11 == (d[1] % 128) * 16 + d[2] \div 16
        top == (d[2] % 16) * 524288 + d[3] * 2048 + d[4] * 8 + d[5] \div 32
        low == (d[5] % 32) * 16777216 + d[6] * 65536 + d[7] * 256 + d[8]
        up == low > 268435456 \/ (low = 268435456 /\ top % 2 = 1)
        mant == IF up THEN top + 1 ELSE top
        exp8 == IF mant = 8388608 THEN exp11 - 896 + 1 ELSE exp11 - 896
        m == IF mant = 8388608 THEN 0 ELSE mant
    IN  IF exp11 = 0 THEN <<sign * 128, 0, 0, 0>>
        ELSE <<sign * 128 + exp8 \div 2, (exp8 % 2) * 128 + m \div 65536,
               (m \div 256) % 256, m % 256>>

\* float32 -> double (exact).
F64Bytes(f) ==
    LET sign == f[1] \div 128
        exp8 == (f[1] % 128) * 2 + f[2] \div 128
        m == (f[2] % 128) * 65536 + f[3] * 256 + f[4]
        exp11 == exp8 + 896
    IN  IF exp8 = 0 THEN <<sign * 128, 0, 0, 0, 0, 0, 0, 0>>
        ELSE <<sign * 128 + exp11 \div 16, (exp11 % 16) * 16 + m \div 524288,
               (m \div 2048) % 256, (m \div 8) % 256, (m % 8) * 32, 0, 0, 0>>

\* buffer[0] = result on a one-element tensor of the dtype.
StoreScalar(dtype, result) ==
    CASE dtype = "float" -> Tensor(dtype, F32Bytes(result.s))
      [] dtype = "int" -> Tensor(dtype, <<result.n>>)
      [] dtype = "uint8" -> Tensor(dtype, <<result.n % 256>>)

\* buffer.item(): the Python number of a one-element tensor.
TensorItem(tensor) ==
    IF tensor.dtype = "float" THEN PyFloat(F64Bytes(tensor.data))
    ELSE PyInt(tensor.data[1])

\* torch.empty(n, dtype): n elements of unspecified content, which is what
\* the memory held before: zeros (g = 0) or something else (g = 1).
TorchEmpty(n, dtype, g) ==
    CASE dtype = "float" ->
            Tensor(dtype, IF g = 0 THEN <<0, 0, 0, 0>> ELSE <<64, 160, 0, 0>>)
      [] dtype = "int" -> Tensor(dtype, [i \in 1..n |-> IF g = 0 THEN 0 ELSE 7])
      [] dtype = "uint8" -> Tensor(dtype, [i \in 1..n |-> IF g = 0 THEN 0 ELSE 255])

\* ------------------------------------------------------- _to_tensor (222-229)
\* torch.tensor(b, dtype=torch.uint8) keeps each byte as an element;
\* tensor.tolist() and bytearray() give the bytes back (bytearray raises
\* ValueError for an element outside 0..255).

\* _to_tensor with dtype=torch.int8.
_to_tensor_signed(obj) ==
    LET b == pickle_dumps(obj)
    IN  Tensor("uint8", [i \in 1..Len(b) |-> IF b[i] >= 128 THEN b[i] - 256 ELSE b[i]])

_to_tensor(obj) ==
    LET b == pickle_dumps(obj)
    IN  Tensor("uint8", [i \in 1..Len(b) |-> b[i] % 256])

_from_tensor(tensor) ==
    LET b == tensor.data
        outside(x) == x < 0 \/ x > 255
    IN  IF SelectSeq(b, outside) # <<>>
        THEN PyError
        ELSE pickle_loads(b)

\* ------------------------------------------------------- the wrapped Trial
\* optuna.trial.Trial as the facade uses it: what it has recorded, and for
\* each operation the set of its outcomes [exc, result, trial].
PyBool(b) == Val("bool", IF b THEN 1 ELSE 0, <<>>, <<>>)

\* A running trial: it has a number and a start time (held here as the
\* float of its timestamp) and has recorded nothing yet.
NewTrial ==
    [isNone |-> FALSE, number |-> 3, params |-> <<>>, distributions |-> <<>>,
     user_attrs |-> <<>>, system_attrs |-> <<>>, intermediate |-> <<>>,
     datetime_start |-> PyFloat(F_five)]

\* trial=None: the facade holds no Trial.
NoneTrial ==
    [isNone |-> TRUE, number |-> 0, params |-> <<>>, distributions |-> <<>>,
     user_attrs |-> <<>>, system_attrs |-> <<>>, intermediate |-> <<>>,
     datetime_start |-> PyNone]

Returns(result, t) == [exc |-> "", result |-> result, trial |-> t]
Raises(e, t) == [exc |-> e, result |-> PyNone, trial |-> t]

HasKey(items, k) == \E i \in 1..Len(items) : items[i].k = k
Lookup(items, k) == items[CHOOSE i \in 1..Len(items) : items[i].k = k].v

\* suggest_*: a parameter already suggested keeps its value; a new one gets
\* a value the sampler picks among choices and is recorded with its domain.
Trial_suggest(t, name, choices, domain) ==
    IF HasKey(t.params, name)
    THEN {Returns(ValOf(Lookup(t.params, name)), t)}
    ELSE {Returns(v, [t EXCEPT !.params = DictSet(@, name, AtomOf(v)),
                               !.distributions = DictSet(@, name, Atom("str", 0, domain))])
          : v \in choices}

FloatChoices == {PyFloat(F_half), PyFloat(F_tenth)}
IntChoices == {PyInt(10)}
CategoricalChoices == {PyNone, PyInt(-5), PyFloat(F_half), PyStr(<<97>>)}

TrialCall(t, c) ==
    {Raises("Error", t)} \cup
    CASE c.name = "suggest_float" -> Trial_suggest(t, c.key, FloatChoices, <<85>>)
      [] c.name = "suggest_uniform" -> Trial_suggest(t, c.key, FloatChoices, <<85>>)
      [] c.name = "suggest_loguniform" -> Trial_suggest(t, c.key, FloatChoices, <<85>>)
      [] c.name = "suggest_discrete_uniform" -> Trial_suggest(t, c.key, FloatChoices, <<85>>)
      [] c.name = "suggest_int" -> Trial_suggest(t, c.key, IntChoices, <<73>>)
      [] c.name = "suggest_categorical" -> Trial_suggest(t, c.key, CategoricalChoices, <<67>>)
      [] c.name = "report" ->
            {Returns(PyNone, [t EXCEPT !.intermediate = DictSet(@, c.key, AtomOf(c.val))])}
      [] c.name = "should_prune" -> {Returns(PyBool(b), t) : b \in BOOLEAN}
      [] c.name = "set_user_attr" ->
            {Returns(PyNone, [t EXCEPT !.user_attrs = DictSet(@, c.key, AtomOf(c.val))])}
      [] c.name = "set_system_attr" ->
            {Returns(PyNone, [t EXCEPT !.system_attrs = DictSet(@, c.key, AtomOf(c.val))])}
      [] c.name = "number" -> {Returns(PyInt(t.number), t)}
      [] c.name = "params" -> {Returns(PyDict(t.params), t)}
      [] c.name = "distributions" -> {Returns(PyDict(t.distributions), t)}
      [] c.name = "user_attrs" -> {Returns(PyDict(t.user_attrs), t)}
      [] c.name = "system_attrs" -> {Returns(PyDict(t.system_attrs), t)}
      [] c.name = "datetime_start" -> {Returns(t.datetime_start, t)}

\* ------------------------------------------------------------- the facade
Call(name, key, val) == [name |-> name, key |-> key, val |-> val]
NoCall == Call("", <<>>, PyNone)

\* The calls of the objective functions of create_db.py, and the properties.
Calls ==
    {Call("suggest_float", <<120, 49>>, PyNone),
     Call("suggest_uniform", <<120>>, PyNone),
     Call("suggest_loguniform", <<120>>, PyNone),
     Call("suggest_discrete_uniform", <<120>>, PyNone),
     Call("suggest_int", <<121>>, PyNone),
     Call("suggest_categorical", <<122>>, PyNone),
     Call("report", <<0>>, PyFloat(F_half)),
     Call("should_prune", <<>>, PyNone),
     Call("set_user_attr", <<98>>, PyInt(1)),
     Call("set_system_attr", <<97>>, PyInt(0)),
     Call("number", <<>>, PyNone),
     Call("params", <<>>, PyNone),
     Call("distributions", <<>>, PyNone),
     Call("user_attrs", <<>>, PyNone),
     Call("system_attrs", <<>>, PyNone),
     Call("datetime_start", <<>>, PyNone)}

\* The methods that go through _call_and_communicate, with their dtype.
ScalarDtype ==
    [suggest_float |-> "float", suggest_uniform |-> "float",
     suggest_loguniform |-> "float", suggest_discrete_uniform |-> "float",
     suggest_int |-> "int", should_prune |-> "uint8", number |-> "int"]
ScalarOps == DOMAIN ScalarDtype
\* The methods that go through _call_and_communicate_obj.
ObjOps == {"suggest_categorical", "params", "distributions", "user_attrs",
           "system_attrs", "datetime_start"}
\* The methods that run on rank 0 and end in dist.barrier().
BarrierOps == {"report", "set_user_attr", "set_system_attr"}
\* The operations that change the Trial.
MutatingOps == BarrierOps \cup
    {"suggest_float", "suggest_uniform", "suggest_loguniform",
     "suggest_discrete_uniform", "suggest_int", "suggest_categorical"}

VARIABLES
    groupSize,     \* dist.get_world_size()
    garbage,       \* what uninitialised memory holds in this run
    shape,         \* buffer.shape[0] of a payload too long to hold (PyNone if held)
    _delegate,     \* rank -> the Trial self._delegate refers to (NoneTrial: None)
    pc,            \* rank -> where the rank is in the operation it runs
    call,          \* rank -> the operation the rank runs
    buffer,        \* rank -> local buffer
    size_buffer,   \* rank -> local size_buffer
    buffer_size,   \* rank -> local buffer_size
    result,        \* rank -> local result (rank 0)
    ret,           \* rank -> what the operation the rank is back from returned
    done,          \* rank -> number of operations returned from
    exc,           \* rank -> the exception that ended the rank ("" if none)
    issued,        \* number of operations the caller has started on some rank
    cur,           \* the operation number issued
    touched,       \* rank -> the rank has evaluated self._delegate
    invocations,   \* rank -> times the rank invoked the Trial in operation number issued
    mutated,       \* rank 0 has finished the Trial call of operation number issued
    computed,      \* what the Trial call of rank 0 returned in operation number issued
    sides,         \* the report/set_user_attr/set_system_attr calls the caller has started
    colls,         \* rank -> the collective calls the rank has entered in its operation
    nissued        \* rank -> number of collective calls the rank has entered in the run

vars == <<groupSize, garbage, shape, _delegate, pc, call, buffer, size_buffer, buffer_size, result,
          ret, done, exc, issued, cur, touched, invocations, mutated, computed, sides,
          colls, nissued>>

Ranks == 0..(groupSize - 1)

\* The rank test that lets every rank through.
IsLeader_any(rank) == rank >= 0

\* dist.get_rank() == 0
IsLeader(rank) == rank = 0

\* How the ranks are set up: whether rank 0 and the other ranks are given a
\* Trial (the docstring asks for a Trial on rank 0 and None elsewhere), and
\* what uninitialised memory holds.
Setups ==
    {[lead |-> TRUE, foll |-> FALSE, garbage |-> 0],
     [lead |-> TRUE, foll |-> FALSE, garbage |-> 1],
     [lead |-> TRUE, foll |-> TRUE, garbage |-> 1],
     [lead |-> FALSE, foll |-> FALSE, garbage |-> 1]}

Init ==
    /\ groupSize \in 1..MaxGroup
    /\ \E setup \in Setups :
          /\ garbage = setup.garbage
          /\ _delegate = [p \in Ranks |->
                             IF (p = 0 /\ setup.lead) \/ (p # 0 /\ setup.foll)
                             THEN NewTrial ELSE NoneTrial]
    /\ shape = PyNone
    /\ pc = [p \in Ranks |-> "idle"]
    /\ call = [p \in Ranks |-> NoCall]
    /\ buffer = [p \in Ranks |-> NoTensor]
    /\ size_buffer = [p \in Ranks |-> NoTensor]
    /\ buffer_size = [p \in Ranks |-> 0]
    /\ result = [p \in Ranks |-> PyNone]
    /\ ret = [p \in Ranks |-> PyNone]
    /\ done = [p \in Ranks |-> 0]
    /\ exc = [p \in Ranks |-> ""]
    /\ issued = 0
    /\ cur = NoCall
    /\ touched = [p \in Ranks |-> FALSE]
    /\ invocations = [p \in Ranks |-> 0]
    /\ mutated = FALSE
    /\ computed = PyNone
    /\ sides = {}
    /\ colls = [p \in Ranks |-> <<>>]
    /\ nissued = [p \in Ranks |-> 0]

\* The caller runs the same operations in the same order on every rank.
NextCalls(p) ==
    IF done[p] < issued THEN (IF done[p] = issued - 1 THEN {cur} ELSE {})
    ELSE IF issued < MaxOps THEN Calls ELSE {}

Invoke(p, c, at) ==
    /\ pc[p] = "idle"
    /\ c \in NextCalls(p)
    /\ call' = [call EXCEPT ![p] = c]
    /\ pc' = [pc EXCEPT ![p] = at]
    /\ ret' = [ret EXCEPT ![p] = PyNone]
    /\ IF done[p] = issued
       THEN /\ issued' = issued + 1
            /\ cur' = c
            /\ invocations' = [q \in Ranks |-> 0]
            /\ mutated' = FALSE
            /\ computed' = PyNone
            /\ sides' = IF c.name \in BarrierOps THEN sides \cup {c} ELSE sides
       ELSE UNCHANGED <<issued, cur, sides, invocations, mutated, computed>>

\* def func(): assert self._delegate is not None; return self._delegate.<op>(...)
func(p, c) ==
    IF _delegate[p].isNone THEN {Raises("AssertionError", _delegate[p])}
    ELSE TrialCall(_delegate[p], c)

\* Running func, or the leader branch of a barrier operation, on rank p.
Deref(p, o) ==
    /\ touched' = [touched EXCEPT ![p] = TRUE]
    /\ _delegate' = [_delegate EXCEPT ![p] = o.trial]
    /\ invocations' = [invocations EXCEPT ![p] =
            IF o.exc # "AssertionError" THEN @ + 1 ELSE @]
    /\ mutated' = (mutated \/ (IsLeader(p) /\ o.exc = ""))
    /\ computed' = IF IsLeader(p) /\ o.exc = "" THEN o.result ELSE computed

\* Number of elements of a tensor.
Numel(tensor) ==
    IF tensor.dtype = "float" THEN Len(tensor.data) \div 4 ELSE Len(tensor.data)

\* The collective call a rank makes at a call site with its local tensors.
CollOf(site, buf, sbuf) ==
    CASE site = "cc_bcast" -> [kind |-> "broadcast", dtype |-> buf.dtype, len |-> Numel(buf)]
      [] site = "obj_bcast_size" ->
            [kind |-> "broadcast", dtype |-> sbuf.dtype, len |-> Numel(sbuf)]
      [] site = "obj_bcast" -> [kind |-> "broadcast", dtype |-> buf.dtype, len |-> Numel(buf)]
      [] site = "barrier" -> [kind |-> "barrier", dtype |-> "", len |-> 0]

\* The record of the collective calls of rank p, kept along the step of p:
\* a new operation starts an empty record, and reaching dist.broadcast or
\* dist.barrier enters the call with the tensor the rank passes.
Log(p) ==
    LET before == IF pc[p] = "idle" THEN <<>> ELSE colls[p]
        enters == pc'[p] \in {"cc_bcast", "obj_bcast_size", "obj_bcast", "barrier"}
    IN  /\ colls' = [colls EXCEPT ![p] =
                        IF enters
                        THEN Append(before, CollOf(pc'[p], buffer'[p], size_buffer'[p]))
                        ELSE before]
        /\ nissued' = [nissued EXCEPT ![p] = IF enters THEN @ + 1 ELSE @]

Raise(p, e) ==
    /\ pc' = [pc EXCEPT ![p] = "raised"]
    /\ exc' = [exc EXCEPT ![p] = e]

Return(p, v) ==
    /\ ret' = [ret EXCEPT ![p] = v]
    /\ done' = [done EXCEPT ![p] = @ + 1]
    /\ pc' = [pc EXCEPT ![p] = "idle"]
    /\ call' = [call EXCEPT ![p] = NoCall]
    /\ buffer' = [buffer EXCEPT ![p] = NoTensor]
    /\ size_buffer' = [size_buffer EXCEPT ![p] = NoTensor]
    /\ buffer_size' = [buffer_size EXCEPT ![p] = 0]
    /\ result' = [result EXCEPT ![p] = PyNone]

\* ---- _call_and_communicate (189-198)
\* cc_alloc with dist.broadcast called by rank 0 alone.
cc_alloc_leader_broadcast(p) ==
    /\ \E c \in Calls :
          /\ c.name \in ScalarOps
          /\ Invoke(p, c, IF IsLeader(p) THEN "cc_func" ELSE "cc_item")
          /\ buffer' = [buffer EXCEPT ![p] = TorchEmpty(1, ScalarDtype[c.name], garbage)]
    /\ UNCHANGED <<groupSize, garbage, shape, _delegate, size_buffer, buffer_size, result, done,
                   exc, touched>>
    /\ Log(p)

\* cc_alloc with torch.empty(1): the dtype argument is left out and the
\* buffer is of the default dtype, torch.float.
cc_alloc_default_dtype(p) ==
    /\ \E c \in Calls :
          /\ c.name \in ScalarOps
          /\ Invoke(p, c, IF IsLeader(p) THEN "cc_func" ELSE "cc_bcast")
          /\ buffer' = [buffer EXCEPT ![p] = TorchEmpty(1, "float", garbage)]
    /\ UNCHANGED <<groupSize, garbage, shape, _delegate, size_buffer, buffer_size, result, done,
                   exc, touched>>
    /\ Log(p)

\* 190-192: buffer = torch.empty(1, dtype=dtype); rank = dist.get_rank()
cc_alloc(p) ==
    /\ \E c \in Calls :
          /\ c.name \in ScalarOps
          /\ Invoke(p, c, IF IsLeader(p) THEN "cc_func" ELSE "cc_bcast")
          /\ buffer' = [buffer EXCEPT ![p] = TorchEmpty(1, ScalarDtype[c.name], garbage)]
    /\ UNCHANGED <<groupSize, garbage, shape, _delegate, size_buffer, buffer_size, result, done,
                   exc, touched>>
    /\ Log(p)

\* 193-194: result = func(); buffer[0] = result
cc_func(p) ==
    /\ pc[p] = "cc_func"
    /\ \E o \in func(p, call[p]) :
          /\ Deref(p, o)
          /\ IF o.exc # ""
             THEN Raise(p, o.exc) /\ UNCHANGED <<buffer, result>>
             ELSE /\ result' = [result EXCEPT ![p] = o.result]
                  /\ buffer' = [buffer EXCEPT ![p] =
                                   StoreScalar(ScalarDtype[call[p].name], o.result)]
                  /\ pc' = [pc EXCEPT ![p] = "cc_bcast"]
                  /\ UNCHANGED exc
    /\ UNCHANGED <<groupSize, garbage, shape, call, size_buffer, buffer_size, ret, done,
                   issued, cur, sides>>
    /\ Log(p)

\* cc_item with rank 0 returning result instead of the buffer's element.
cc_item_result(p) ==
    /\ pc[p] = "cc_item"
    /\ Return(p, IF IsLeader(p) THEN result[p] ELSE TensorItem(buffer[p]))
    /\ UNCHANGED <<groupSize, garbage, shape, _delegate, exc, issued, cur, sides, touched,
                   invocations, mutated, computed>>
    /\ Log(p)

\* 198: return buffer.item()
cc_item(p) ==
    /\ pc[p] = "cc_item"
    /\ Return(p, TensorItem(buffer[p]))
    /\ UNCHANGED <<groupSize, garbage, shape, _delegate, exc, issued, cur, sides, touched,
                   invocations, mutated, computed>>
    /\ Log(p)

\* ---- _call_and_communicate_obj (201-219)
\* obj_alloc without the rank test: every rank goes on to run func.
obj_alloc_all(p) ==
    /\ \E c \in Calls :
          /\ c.name \in ObjOps
          /\ Invoke(p, c, "obj_func")
          /\ size_buffer' = [size_buffer EXCEPT ![p] = TorchEmpty(1, "int", garbage)]
    /\ buffer' = [buffer EXCEPT ![p] = NoTensor]
    /\ UNCHANGED <<groupSize, garbage, shape, _delegate, buffer_size, result, done, exc,
                   touched>>
    /\ Log(p)

\* obj_alloc where a rank other than 0 makes its payload buffer at once, of
\* the length its fresh size_buffer happens to hold.
obj_alloc_early(p) ==
    /\ \E c \in Calls :
          /\ c.name \in ObjOps
          /\ Invoke(p, c, IF IsLeader(p) THEN "obj_func" ELSE "obj_bcast_size")
          /\ size_buffer' = [size_buffer EXCEPT ![p] = TorchEmpty(1, "int", garbage)]
    /\ buffer' = [buffer EXCEPT ![p] =
                     IF IsLeader(p) THEN NoTensor
                     ELSE TorchEmpty(TensorItem(TorchEmpty(1, "int", garbage)).n, "uint8",
                                     garbage)]
    /\ UNCHANGED <<groupSize, garbage, shape, _delegate, buffer_size, result, done, exc,
                   touched>>
    /\ Log(p)

\* 202-204: buffer = None; size_buffer = torch.empty(1, dtype=torch.int)
obj_alloc(p) ==
    /\ \E c \in Calls :
          /\ c.name \in ObjOps
          /\ Invoke(p, c, IF IsLeader(p) THEN "obj_func" ELSE "obj_bcast_size")
          /\ size_buffer' = [size_buffer EXCEPT ![p] = TorchEmpty(1, "int", garbage)]
    /\ buffer' = [buffer EXCEPT ![p] = NoTensor]
    /\ UNCHANGED <<groupSize, garbage, shape, _delegate, buffer_size, result, done, exc,
                   touched>>
    /\ Log(p)

\* 206-208: result = func(); buffer = _to_tensor(result);
\*          size_buffer[0] = buffer.shape[0]
obj_func(p) ==
    /\ pc[p] = "obj_func"
    /\ \E o \in func(p, call[p]) :
          /\ Deref(p, o)
          /\ IF o.exc # ""
             THEN Raise(p, o.exc) /\ UNCHANGED <<buffer, size_buffer, result>>
             ELSE /\ result' = [result EXCEPT ![p] = o.result]
                  /\ buffer' = [buffer EXCEPT ![p] = _to_tensor(o.result)]
                  /\ size_buffer' = [size_buffer EXCEPT ![p] =
                        StoreScalar("int", PyInt(Len(_to_tensor(o.result).data)))]
                  /\ pc' = [pc EXCEPT ![p] = "obj_bcast_size"]
                  /\ UNCHANGED exc
    /\ UNCHANGED <<groupSize, garbage, shape, call, buffer_size, ret, done, issued, cur, sides>>
    /\ Log(p)

\* 212-215: buffer_size = int(size_buffer.item());
\*          if rank != 0: buffer = torch.empty(buffer_size, dtype=torch.uint8)
\*          assert buffer is not None
obj_empty(p) ==
    /\ pc[p] = "obj_empty"
    /\ LET n == TensorItem(size_buffer[p]).n
       IN  /\ buffer_size' = [buffer_size EXCEPT ![p] = n]
           /\ IF ~IsLeader(p)
              THEN IF n < 0
                   THEN Raise(p, "RuntimeError") /\ UNCHANGED buffer
                   ELSE /\ buffer' = [buffer EXCEPT ![p] = TorchEmpty(n, "uint8", garbage)]
                        /\ pc' = [pc EXCEPT ![p] = "obj_bcast"]
                        /\ UNCHANGED exc
              ELSE IF buffer[p] = NoTensor
                   THEN Raise(p, "AssertionError") /\ UNCHANGED buffer
                   ELSE /\ pc' = [pc EXCEPT ![p] = "obj_bcast"]
                        /\ UNCHANGED <<buffer, exc>>
    /\ UNCHANGED <<groupSize, garbage, shape, _delegate, call, size_buffer, result, ret, done,
                   issued, cur, sides, touched, invocations, mutated, computed>>
    /\ Log(p)

\* 219: return _from_tensor(buffer)
obj_loads(p) ==
    /\ pc[p] = "obj_loads"
    /\ LET v == _from_tensor(buffer[p])
       IN  IF v = PyError
           THEN /\ Raise(p, "UnpicklingError")
                /\ UNCHANGED <<ret, done, call, buffer, size_buffer, buffer_size, result>>
           ELSE Return(p, v) /\ UNCHANGED exc
    /\ UNCHANGED <<groupSize, garbage, shape, _delegate, issued, cur, sides, touched, invocations,
                   mutated, computed>>
    /\ Log(p)

\* se_rank without the rank test: every rank runs the Trial call.
se_rank_all(p) ==
    /\ \E c \in Calls :
          /\ c.name \in BarrierOps
          /\ Invoke(p, c, "se_mutate")
    /\ UNCHANGED <<groupSize, garbage, shape, _delegate, buffer, size_buffer, buffer_size, result,
                   done, exc, touched>>
    /\ Log(p)

\* se_rank with dist.barrier() inside the rank-0 branch.
se_rank_leader_barrier(p) ==
    /\ \E c \in Calls :
          /\ c.name \in BarrierOps
          /\ Invoke(p, c, IF IsLeader(p) THEN "se_mutate" ELSE "se_return")
    /\ UNCHANGED <<groupSize, garbage, shape, _delegate, buffer, size_buffer, buffer_size, result,
                   done, exc, touched>>
    /\ Log(p)

\* ---- report, set_user_attr, set_system_attr (102-107, 120-132)
\* if dist.get_rank() == 0:
se_rank(p) ==
    /\ \E c \in Calls :
          /\ c.name \in BarrierOps
          /\ Invoke(p, c, IF IsLeader(p) THEN "se_mutate" ELSE "barrier")
    /\ UNCHANGED <<groupSize, garbage, shape, _delegate, buffer, size_buffer, buffer_size, result,
                   done, exc, touched>>
    /\ Log(p)

\* assert self._delegate is not None, without the call on the Trial
se_mutate_assert_only(p) ==
    /\ pc[p] = "se_mutate"
    /\ \E o \in func(p, call[p]) :
          /\ Deref(p, [o EXCEPT !.trial = _delegate[p]])
          /\ IF o.exc # ""
             THEN Raise(p, o.exc)
             ELSE /\ pc' = [pc EXCEPT ![p] = "barrier"]
                  /\ UNCHANGED exc
    /\ UNCHANGED <<groupSize, garbage, shape, call, buffer, size_buffer, buffer_size, result, ret,
                   done, issued, cur, sides>>
    /\ Log(p)

\* assert self._delegate is not None; self._delegate.<op>(...)
se_mutate(p) ==
    /\ pc[p] = "se_mutate"
    /\ \E o \in func(p, call[p]) :
          /\ Deref(p, o)
          /\ IF o.exc # ""
             THEN Raise(p, o.exc)
             ELSE /\ pc' = [pc EXCEPT ![p] = "barrier"]
                  /\ UNCHANGED exc
    /\ UNCHANGED <<groupSize, garbage, shape, call, buffer, size_buffer, buffer_size, result, ret,
                   done, issued, cur, sides>>
    /\ Log(p)

\* the operation returns None after dist.barrier()
se_return(p) ==
    /\ pc[p] = "se_return"
    /\ Return(p, PyNone)
    /\ UNCHANGED <<groupSize, garbage, shape, _delegate, exc, issued, cur, sides, touched,
                   invocations, mutated, computed>>
    /\ Log(p)

\* ---- torch.distributed collectives
\* dist.broadcast with the rank's own number as src: nothing is received.
Received_own_source(dst, src) == dst

\* What a receiver's tensor holds after dist.broadcast(tensor, src=0).
Received(dst, src) ==
    LET n == Len(src.data)
        m == Len(dst.data)
    IN  Tensor(dst.dtype,
               IF m <= n THEN SubSeq(src.data, 1, m)
               ELSE src.data \o SubSeq(dst.data, n + 1, m))

\* dist.broadcast(buffer, src=0) at 197 and 218, dist.broadcast(size_buffer,
\* src=0) at 211: every rank is in the call; all leave with the source's data.
dist_broadcast(site) ==
    /\ \A p \in Ranks : pc[p] = site
    /\ CASE site = "cc_bcast" ->
              /\ buffer' = [p \in Ranks |-> Received(buffer[p], buffer[0])]
              /\ pc' = [p \in Ranks |-> "cc_item"]
              /\ UNCHANGED size_buffer
         [] site = "obj_bcast_size" ->
              /\ size_buffer' = [p \in Ranks |-> Received(size_buffer[p], size_buffer[0])]
              /\ pc' = [p \in Ranks |-> "obj_empty"]
              /\ UNCHANGED buffer
         [] site = "obj_bcast" ->
              /\ buffer' = [p \in Ranks |-> Received(buffer[p], buffer[0])]
              /\ pc' = [p \in Ranks |-> "obj_loads"]
              /\ UNCHANGED size_buffer
    /\ UNCHANGED <<groupSize, garbage, shape, _delegate, call, buffer_size, result, ret, done, exc,
                   issued, cur, sides, touched, invocations, mutated, computed, colls, nissued>>

\* dist.barrier() at 107, 125, 132: released when every rank has arrived.
dist_barrier ==
    /\ \A p \in Ranks : pc[p] = "barrier"
    /\ pc' = [p \in Ranks |-> "se_return"]
    /\ UNCHANGED <<groupSize, garbage, shape, _delegate, call, buffer, size_buffer,
                   buffer_size, result, ret, done, exc, issued, cur, sides, touched,
                   invocations, mutated, computed, colls, nissued>>

Next ==
    \/ \E p \in Ranks : cc_alloc(p)
    \/ \E p \in Ranks : cc_func(p)
    \/ \E p \in Ranks : cc_item(p)
    \/ \E p \in Ranks : obj_alloc(p)
    \/ \E p \in Ranks : obj_func(p)
    \/ \E p \in Ranks : obj_empty(p)
    \/ \E p \in Ranks : obj_loads(p)
    \/ \E p \in Ranks : se_rank(p)
    \/ \E p \in Ranks : se_mutate(p)
    \/ \E p \in Ranks : se_return(p)
    \/ \E site \in {"cc_bcast", "obj_bcast_size", "obj_bcast"} : dist_broadcast(site)
    \/ dist_barrier

Spec == Init /\ [][Next]_vars

\* ---- the object broadcast with the serializer left open
\* The byte strings _to_tensor may hand over: none, one byte, the pickle of
\* None, and LargeLen bytes.
Payloads ==
    {<<>>, <<46>>, <<128, 4, 78, 46>>, [i \in 1..LargeLen |-> i % 251]}

\* obj_func_bytes that skips the size assignment for an empty payload.
obj_func_bytes_skip_empty(p) ==
    /\ pc[p] = "obj_func"
    /\ \E o \in func(p, call[p]) :
          /\ Deref(p, o)
          /\ IF o.exc # ""
             THEN Raise(p, o.exc) /\ UNCHANGED <<buffer, size_buffer, result>>
             ELSE /\ result' = [result EXCEPT ![p] = o.result]
                  /\ \E b \in Payloads :
                        /\ buffer' = [buffer EXCEPT ![p] = Tensor("uint8", b)]
                        /\ size_buffer' = [size_buffer EXCEPT ![p] =
                                              IF Len(b) = 0 THEN @
                                              ELSE StoreScalar("int", PyInt(Len(b)))]
                  /\ pc' = [pc EXCEPT ![p] = "obj_bcast_size"]
                  /\ UNCHANGED exc
    /\ UNCHANGED <<groupSize, garbage, shape, call, buffer_size, ret, done, issued, cur, sides>>
    /\ Log(p)

\* 206-208 with any of Payloads as the bytes of the result.
obj_func_bytes(p) ==
    /\ pc[p] = "obj_func"
    /\ \E o \in func(p, call[p]) :
          /\ Deref(p, o)
          /\ IF o.exc # ""
             THEN Raise(p, o.exc) /\ UNCHANGED <<buffer, size_buffer, result>>
             ELSE /\ result' = [result EXCEPT ![p] = o.result]
                  /\ \E b \in Payloads :
                        /\ buffer' = [buffer EXCEPT ![p] = Tensor("uint8", b)]
                        /\ size_buffer' = [size_buffer EXCEPT ![p] =
                                              StoreScalar("int", PyInt(Len(b)))]
                  /\ pc' = [pc EXCEPT ![p] = "obj_bcast_size"]
                  /\ UNCHANGED exc
    /\ UNCHANGED <<groupSize, garbage, shape, call, buffer_size, ret, done, issued, cur, sides>>
    /\ Log(p)

NextBytes ==
    \/ \E p \in Ranks : obj_alloc(p)
    \/ \E p \in Ranks : obj_func_bytes(p)
    \/ \E p \in Ranks : obj_empty(p)
    \/ \E p \in Ranks : obj_loads(p)
    \/ \E site \in {"obj_bcast_size", "obj_bcast"} : dist_broadcast(site)

SpecBytes == Init /\ [][NextBytes]_vars

\* ---- integers beyond 32 bits
\* A Python int outside the range of torch.int is held as two limbs: it is
\* hi * 2^16 + lo with lo in 0..65535.
PyWide(hi, lo) == Val("int", lo, <<hi>>, <<>>)
IsWide(v) == v.t = "int" /\ v.s # <<>>

\* The integer reduced modulo 2^32 to the range of torch.int.
Reduce32(v) ==
    IF IsWide(v)
    THEN LET h == v.s[1] % 65536
         IN  (IF h >= 32768 THEN h - 65536 ELSE h) * 65536 + v.n
    ELSE v.n

\* 2^31, -2^31 - 1 and 2^32 + 5.
WideInts == {PyWide(32768, 0), PyWide(-32769, 65535), PyWide(65536, 5)}
\* Payload lengths: 2^31 and 2^32 + 3.
WideLens == {PyWide(32768, 0), PyWide(65536, 3)}

\* StoreWide keeping the nearest number of the range instead.
StoreWide_saturate(dtype, v) ==
    IF dtype = "int" /\ IsWide(v)
    THEN {[exc |-> "", tensor |-> Tensor("int", <<IF v.s[1] > 0 THEN 2147483647
                                                   ELSE -2147483647 - 1>>)],
          [exc |-> "RuntimeError", tensor |-> NoTensor]}
    ELSE {[exc |-> "", tensor |-> StoreScalar(dtype, v)]}

\* tensor[0] = v on a one-element tensor, as it may end.  The facade makes
\* no check before the assignment; for an int outside the range of torch.int
\* the assignment, depending on the torch build, keeps the number reduced
\* to 32 bits or raises RuntimeError.
StoreWide(dtype, v) ==
    IF dtype = "int" /\ IsWide(v)
    THEN {[exc |-> "", tensor |-> Tensor("int", <<Reduce32(v)>>)],
          [exc |-> "RuntimeError", tensor |-> NoTensor]}
    ELSE {[exc |-> "", tensor |-> StoreScalar(dtype, v)]}

\* func on a Trial whose number is 2^31 + 3 and whose sampler picks
\* suggest_int values among WideInts.
funcWide(p, c) ==
    LET t == _delegate[p]
    IN  IF t.isNone THEN {Raises("AssertionError", t)}
        ELSE CASE c.name = "suggest_int" -> Trial_suggest(t, c.key, WideInts, <<73>>)
               [] c.name = "number" -> {Returns(PyWide(32768, t.number), t)}
               [] OTHER -> TrialCall(t, c)

\* 193-194: result = func(); buffer[0] = result
cc_func_wide(p) ==
    /\ pc[p] = "cc_func"
    /\ \E o \in funcWide(p, call[p]) :
          /\ Deref(p, o)
          /\ IF o.exc # ""
             THEN Raise(p, o.exc) /\ UNCHANGED <<buffer, result>>
             ELSE /\ result' = [result EXCEPT ![p] = o.result]
                  /\ \E st \in StoreWide(ScalarDtype[call[p].name], o.result) :
                        IF st.exc # ""
                        THEN Raise(p, st.exc) /\ UNCHANGED buffer
                        ELSE /\ buffer' = [buffer EXCEPT ![p] = st.tensor]
                             /\ pc' = [pc EXCEPT ![p] = "cc_bcast"]
                             /\ UNCHANGED exc
    /\ UNCHANGED <<groupSize, garbage, shape, call, size_buffer, buffer_size, ret, done,
                   issued, cur, sides>>
    /\ Log(p)

\* 206-208 with a payload of one of WideLens bytes: its elements are not
\* held, its length is kept in shape.
obj_func_wide(p) ==
    /\ pc[p] = "obj_func"
    /\ \E o \in func(p, call[p]) :
          /\ Deref(p, o)
          /\ IF o.exc # ""
             THEN Raise(p, o.exc) /\ UNCHANGED <<buffer, size_buffer, result, shape>>
             ELSE /\ result' = [result EXCEPT ![p] = o.result]
                  /\ buffer' = [buffer EXCEPT ![p] = Tensor("uint8", <<>>)]
                  /\ \E n \in WideLens :
                        /\ shape' = n
                        /\ \E st \in StoreWide("int", n) :
                              IF st.exc # ""
                              THEN Raise(p, st.exc) /\ UNCHANGED size_buffer
                              ELSE /\ size_buffer' = [size_buffer EXCEPT ![p] = st.tensor]
                                   /\ pc' = [pc EXCEPT ![p] = "obj_bcast_size"]
                                   /\ UNCHANGED exc
    /\ UNCHANGED <<groupSize, garbage, call, buffer_size, ret, done, issued, cur, sides>>
    /\ Log(p)

\* The scalar operations, and the object operations up to the broadcast of
\* the length, with integers beyond 32 bits.
NextWide ==
    \/ \E p \in Ranks : cc_alloc(p)
    \/ \E p \in Ranks : cc_func_wide(p)
    \/ \E p \in Ranks : cc_item(p)
    \/ dist_broadcast("cc_bcast")
    \/ \E p \in Ranks : obj_alloc(p)
    \/ \E p \in Ranks : obj_func_wide(p)
    \/ dist_broadcast("obj_bcast_size")

SpecWide == Init /\ [][NextWide]_vars

\* ---- runs without failures
\* Rank 0 holds a Trial.
InitLive == Init /\ ~_delegate[0].isNone

\* The Trial call of this step does not raise.
NoComputeRaise == \A p \in Ranks : exc'[p] # "Error"

NextLive ==
    \/ \E p \in Ranks : cc_alloc(p)
    \/ \E p \in Ranks : cc_func(p) /\ NoComputeRaise
    \/ \E p \in Ranks : cc_item(p)
    \/ \E p \in Ranks : obj_alloc(p)
    \/ \E p \in Ranks : obj_func(p) /\ NoComputeRaise
    \/ \E p \in Ranks : obj_empty(p)
    \/ \E p \in Ranks : obj_loads(p)
    \/ \E p \in Ranks : se_rank(p)
    \/ \E p \in Ranks : se_mutate(p) /\ NoComputeRaise
    \/ \E p \in Ranks : se_return(p)
    \/ \E site \in {"cc_bcast", "obj_bcast_size", "obj_bcast"} : dist_broadcast(site)
    \/ dist_barrier

\* Every rank is a process of its own and the collective calls complete
\* once all ranks are in them: a step that can be taken is taken.
SpecLive == InitLive /\ [][NextLive]_vars /\ WF_vars(NextLive)

\* --------------------------------------------------------------- properties
\* Where a rank is inside a collective call, waiting for the other ranks.
WaitSites == {"cc_bcast", "obj_bcast_size", "obj_bcast", "barrier"}
\* The first collective call of an operation.
FirstWaitSites == {"cc_bcast", "obj_bcast_size", "barrier"}
\* Rank p is back from operation number issued, the latest one.
Back(p) == pc[p] = "idle" /\ done[p] = issued /\ issued > 0

\* C1 (Agreement): two ranks that are back from the same operation hold the
\* same return value, rank 0 included.
Agreement ==
    \A p \in Ranks : \A q \in Ranks :
        (pc[p] = "idle" /\ pc[q] = "idle" /\ done[p] = done[q] /\ done[p] > 0)
            => ret[p] = ret[q]

\* Both ranks of a group of 2 are back from a suggest_float whose value
\* float32 cannot hold exactly, with the value float32 rounds it to.
AgreementWitness ==
    /\ groupSize = 2
    /\ Back(0) /\ Back(1)
    /\ cur.name = "suggest_float"
    /\ ret[1] = PyFloat(<<63, 185, 153, 153, 160, 0, 0, 0>>)
    /\ ret[0] = ret[1]

\* C2 (Leader-exclusivity): no rank but 0 ever invokes the Trial, rank 0
\* invokes it at most once in an operation, and exactly once by the time any
\* rank is back from a mutating operation.
LeaderExclusivity ==
    /\ \A p \in Ranks : p # 0 => invocations[p] = 0
    /\ invocations[0] <= 1
    /\ \A p \in Ranks :
          (Back(p) /\ cur.name \in MutatingOps) => invocations[0] = 1

\* A group of 2 where rank 1 was given a Trial too: both are back from
\* report, which ran once, on rank 0.
LeaderExclusivityWitness ==
    /\ groupSize = 2
    /\ ~_delegate[1].isNone
    /\ Back(0) /\ Back(1)
    /\ cur.name = "report"
    /\ invocations[0] = 1 /\ invocations[1] = 0

\* C3 (Barrier ordering): a rank is back from report, set_user_attr or
\* set_system_attr only when rank 0 has finished the Trial call of that
\* operation.
BarrierOrdering ==
    \A p \in Ranks : (Back(p) /\ cur.name \in BarrierOps) => mutated

\* Rank 1 is back from set_user_attr while rank 0, past the barrier, has not
\* returned yet; the note is recorded.
BarrierOrderingWitness ==
    /\ groupSize = 2
    /\ cur.name = "set_user_attr"
    /\ Back(1)
    /\ pc[0] = "se_return" /\ done[0] = issued - 1
    /\ mutated
    /\ HasKey(_delegate[0].user_attrs, <<98>>)

\* C4 (Size negotiation), under SpecBytes: a rank other than 0 that has
\* allocated its payload buffer has the length of rank 0's payload in
\* buffer_size and a buffer of that length, and after the payload broadcast
\* its buffer equals rank 0's.
SizeNegotiation ==
    \A p \in Ranks :
        p # 0 =>
            /\ (pc[p] \in {"obj_bcast", "obj_loads"}
                    /\ pc[0] \in {"obj_empty", "obj_bcast", "obj_loads"}) =>
                  /\ buffer_size[p] = Len(buffer[0].data)
                  /\ Len(buffer[p].data) = Len(buffer[0].data)
            /\ (pc[p] = "obj_loads" /\ pc[0] = "obj_loads") => buffer[p] = buffer[0]

\* Rank 1, whose fresh buffers hold garbage, has received a one-byte payload.
SizeNegotiationWitness ==
    /\ groupSize = 2
    /\ garbage = 1
    /\ pc[0] = "obj_loads" /\ pc[1] = "obj_loads"
    /\ buffer[0].data = <<46>>
    /\ buffer_size[1] = 1
    /\ buffer[1] = buffer[0]

\* C5, as claimed: no rank is ever blocked inside a collective call that a
\* rank ended by its `assert self._delegate is not None` will never join.
NoDeadlockOnAssertion ==
    ~ \E p \in Ranks : \E q \in Ranks :
          /\ pc[q] = "raised" /\ exc[q] = "AssertionError"
          /\ pc[p] \in WaitSites

\* C6, as claimed: when a rank has raised, no other rank is left waiting in
\* a collective call and none has returned from the operation it raised in.
WholeGroupAborts ==
    \A q \in Ranks :
        pc[q] = "raised" =>
            \A p \in Ranks : pc[p] \notin WaitSites /\ done[p] <= done[q]

\* C7: once rank 0 has raised in an operation, every other rank is finishing
\* the operation before it, or is about to call this one, or waits in its
\* first collective call; none gets past that call or returns from it.
LeaderRaiseBlocksOthers ==
    pc[0] = "raised" =>
        \A p \in Ranks :
            p # 0 =>
                /\ pc[p] # "raised"
                /\ done[p] <= done[0]
                /\ done[p] = done[0] => pc[p] \in FirstWaitSites \cup {"idle"}
                /\ done[p] < done[0] =>
                      /\ done[p] = done[0] - 1
                      /\ pc[p] \in {"cc_item", "obj_loads", "se_return"}

\* The Trial raised in suggest_int on rank 0, which called no broadcast;
\* rank 1 waits in dist.broadcast.
LeaderRaiseBlocksOthersWitness ==
    /\ groupSize = 2
    /\ pc[0] = "raised" /\ exc[0] = "Error"
    /\ call[0].name = "suggest_int"
    /\ pc[1] = "cc_bcast"
    /\ done[1] = done[0]

\* C8: a rank other than 0 never evaluates self._delegate and never fails
\* the assertion on it.
FollowerNeverDereferences ==
    \A p \in Ranks : p # 0 => (~touched[p] /\ exc[p] # "AssertionError")

\* Rank 1, constructed with trial=None, is back from its second operation,
\* an object broadcast, without having touched self._delegate.
FollowerNeverDereferencesWitness ==
    /\ groupSize = 2
    /\ _delegate[1].isNone
    /\ Back(1) /\ done[1] = 2
    /\ cur.name \in ObjOps
    /\ ~touched[1]
    /\ touched[0]

\* C9: the Trial of a rank other than 0 is never changed; the step in which
\* rank 0 runs set_user_attr or set_system_attr changes its Trial by that
\* entry and nothing else; and the entry is there when a rank is back.
NoteOnlyOnLeader ==
    /\ [](\A p \in Ranks :
            p # 0 => _delegate[p] = (IF _delegate[p].isNone THEN NoneTrial ELSE NewTrial))
    /\ [](\A p \in Ranks :
            /\ (Back(p) /\ cur.name = "set_user_attr") =>
                  /\ HasKey(_delegate[0].user_attrs, cur.key)
                  /\ Lookup(_delegate[0].user_attrs, cur.key) = AtomOf(cur.val)
            /\ (Back(p) /\ cur.name = "set_system_attr") =>
                  /\ HasKey(_delegate[0].system_attrs, cur.key)
                  /\ Lookup(_delegate[0].system_attrs, cur.key) = AtomOf(cur.val))
    /\ [][(pc[0] = "se_mutate" /\ pc'[0] = "barrier") =>
            /\ call[0].name = "set_user_attr" =>
                  _delegate'[0] = [_delegate[0] EXCEPT !.user_attrs =
                                      DictSet(@, call[0].key, AtomOf(call[0].val))]
            /\ call[0].name = "set_system_attr" =>
                  _delegate'[0] = [_delegate[0] EXCEPT !.system_attrs =
                                      DictSet(@, call[0].key, AtomOf(call[0].val))]]_vars

\* set_user_attr("b", 1) in a group of 2 where rank 1 holds a Trial of its
\* own: both are back, rank 0's Trial has the note, rank 1's has none.
NoteOnlyOnLeaderWitness ==
    /\ groupSize = 2
    /\ Back(0) /\ Back(1)
    /\ cur = Call("set_user_attr", <<98>>, PyInt(1))
    /\ _delegate[0].user_attrs = <<Item(<<98>>, Atom("int", 1, <<>>))>>
    /\ _delegate[1] = NewTrial

\* What func() returned on rank 0 in the latest operation, read back from
\* the Trial (which no later operation has touched).
LeaderResult == (CHOOSE o \in TrialCall(_delegate[0], cur) : o.exc = "").result

\* C10 (Round-trip): the tensor rank 0 makes of its result loads back to the
\* result, and a rank that is back from an object broadcast returns rank 0's
\* result.
RoundTrip ==
    /\ pc[0] \in {"obj_bcast_size", "obj_empty", "obj_bcast"} =>
          _from_tensor(buffer[0]) = result[0]
    /\ \A p \in Ranks :
          (Back(p) /\ cur.name \in ObjOps /\ ~_delegate[0].isNone) => ret[p] = LeaderResult

\* Rank 1 is back from params with the mapping of the one parameter
\* suggested before, a float.
RoundTripWitness ==
    /\ groupSize = 2
    /\ Back(1)
    /\ cur.name = "params"
    /\ ret[1] = PyDict(<<Item(<<120>>, Atom("float", 0, F_tenth))>>)

\* The Python number buffer.item() gives for a value the dtype holds exactly.
Number(v) == IF v.t = "bool" THEN PyInt(v.n) ELSE v
\* The dtype holds the value exactly.
Exact(dtype, v) ==
    CASE dtype = "float" -> v.t = "float" /\ F64Bytes(F32Bytes(v.s)) = v.s
      [] dtype = "int" -> v.t = "int" /\ v.n >= -2147483647 - 1 /\ v.n <= 2147483647
      [] dtype = "uint8" -> v.t \in {"bool", "int"} /\ v.n >= 0 /\ v.n <= 255

\* C11 (Validity of the scalar broadcast): when the Trial call of rank 0
\* returned a value its dtype holds exactly, every rank past dist.broadcast
\* has that value in its buffer, and every rank that is back returns it
\* (for should_prune: 1 for True, 0 for False).
ScalarValidity ==
    \A p \in Ranks :
        (cur.name \in ScalarOps /\ mutated /\ Exact(ScalarDtype[cur.name], computed)) =>
            /\ (pc[p] = "cc_item" /\ done[p] = issued - 1) =>
                  TensorItem(buffer[p]) = Number(computed)
            /\ Back(p) => ret[p] = Number(computed)

\* should_prune said True on rank 0; rank 1, whose fresh buffer held
\* garbage, is back with 1, and so is rank 0.
ScalarValidityWitness ==
    /\ groupSize = 2
    /\ garbage = 1
    /\ cur.name = "should_prune"
    /\ computed = PyBool(TRUE)
    /\ Back(0) /\ Back(1)
    /\ ret[1] = PyInt(1)

\* The number of the operation rank p is in, or is back from.
OpNo(p) == IF pc[p] = "idle" THEN done[p] ELSE done[p] + 1
\* Rank q is through the length broadcast of operation number k.
LengthAgreed(q, k) ==
    \/ done[q] >= k
    \/ OpNo(q) = k /\ Len(colls[q]) >= 1 /\ pc[q] # "obj_bcast_size"

\* C12, as claimed: no rank, rank 0 included, holds a payload buffer before
\* it is through the length broadcast.
AllocAfterLengthAll ==
    \A p \in Ranks :
        (call[p].name \in ObjOps /\ buffer[p] # NoTensor) =>
            pc[p] \notin {"obj_func", "obj_bcast_size"}

\* C12, amended: a rank other than 0 holds a payload buffer only when every
\* rank is through the length broadcast of that operation, and its length
\* is the one received; rank 0 has made its payload buffer when it enters
\* the length broadcast.
AllocAfterLength ==
    /\ \A p \in Ranks :
          (p # 0 /\ call[p].name \in ObjOps /\ buffer[p] # NoTensor) =>
              /\ pc[p] \in {"obj_bcast", "obj_loads"}
              /\ Len(buffer[p].data) = buffer_size[p]
              /\ \A q \in Ranks : LengthAgreed(q, OpNo(p))
    /\ pc[0] = "obj_bcast_size" => buffer[0] # NoTensor

\* Rank 1 has made its payload buffer and waits in the payload broadcast;
\* rank 0, through the length broadcast, has not moved on yet.
AllocAfterLengthWitness ==
    /\ groupSize = 2
    /\ pc[1] = "obj_bcast" /\ pc[0] = "obj_empty"
    /\ buffer[1] # NoTensor
    /\ Len(buffer[1].data) = Len(buffer[0].data)
    /\ Len(buffer[1].data) > 0

\* C13: two ranks in the same operation, or back from it, have entered the
\* same collective calls in the same order as far as both have got: the
\* same kind and, for a broadcast, the same dtype and number of elements;
\* when both are back they have entered the same calls.
SameCollectives ==
    \A p \in Ranks : \A q \in Ranks :
        (p < q /\ OpNo(p) = OpNo(q)) =>
            /\ \A j \in 1..Len(colls[p]) : j <= Len(colls[q]) => colls[p][j] = colls[q][j]
            /\ (pc[p] = "idle" /\ pc[q] = "idle") => colls[p] = colls[q]

\* Both ranks wait in the payload broadcast of the same object operation,
\* each with a buffer as long as rank 0's payload, after the length
\* broadcast.
SameCollectivesWitness ==
    /\ groupSize = 2
    /\ pc[0] = "obj_bcast" /\ pc[1] = "obj_bcast"
    /\ Len(colls[1]) = 2
    /\ colls[1][1] = [kind |-> "broadcast", dtype |-> "int", len |-> 1]
    /\ colls[1][2].dtype = "uint8" /\ colls[1][2].len > 4
    /\ colls[0] = colls[1]

Barrier == [kind |-> "barrier", dtype |-> "", len |-> 0]

\* C14 (Dispatch rule): a rank that is back from report, set_user_attr or
\* set_system_attr has entered one barrier and no broadcast; from a scalar
\* operation, one broadcast and no barrier; from an object operation, two
\* broadcasts, of the length and then of the payload, and no barrier.
DispatchRule ==
    \A p \in Ranks :
        Back(p) =>
            /\ cur.name \in BarrierOps => colls[p] = <<Barrier>>
            /\ cur.name \in ScalarOps =>
                  /\ Len(colls[p]) = 1
                  /\ colls[p][1] = [kind |-> "broadcast", dtype |-> ScalarDtype[cur.name],
                                     len |-> 1]
            /\ cur.name \in ObjOps =>
                  /\ Len(colls[p]) = 2
                  /\ colls[p][1] = [kind |-> "broadcast", dtype |-> "int", len |-> 1]
                  /\ colls[p][2].kind = "broadcast" /\ colls[p][2].dtype = "uint8"

\* Both ranks are back from report, each through one barrier.
DispatchRuleWitness ==
    /\ groupSize = 2
    /\ cur.name = "report"
    /\ Back(0) /\ Back(1)
    /\ colls[0] = <<Barrier>> /\ colls[1] = <<Barrier>>
    /\ nissued[1] = 1

\* The attributes a rank has read hold what call c has set.
Includes(v, c) ==
    /\ v.t = "dict"
    /\ HasKey(v.d, c.key)
    /\ Lookup(v.d, c.key) = AtomOf(c.val)

\* C15 (Read-after-write across operations): user_attrs after set_user_attr,
\* and system_attrs after set_system_attr, return on every rank the
\* attributes with the entry the earlier operation has set.
ReadAfterWrite ==
    \A p \in Ranks : \A c \in sides :
        (/\ Back(p)
         /\ \/ c.name = "set_user_attr" /\ cur.name = "user_attrs"
            \/ c.name = "set_system_attr" /\ cur.name = "system_attrs")
        => Includes(ret[p], c)

\* Rank 1, which holds no Trial, is back from user_attrs after
\* set_user_attr with the attribute set on rank 0.
ReadAfterWriteWitness ==
    /\ groupSize = 2
    /\ _delegate[1].isNone
    /\ cur.name = "user_attrs"
    /\ Back(1)
    /\ \E c \in sides : c.name = "set_user_attr" /\ Includes(ret[1], c)

\* The number of collective calls of the operation rank p is in.
CollsOf(p) == IF call[p].name \in ObjOps THEN 2 ELSE 1

\* Rank p has issued a collective call of operation k.
IssuedIn(p, k) ==
    \/ done[p] >= k
    \/ done[p] = k - 1 /\ pc[p] # "idle" /\ colls[p] # <<>>

\* Rank q has reached the last collective call of operation k.
ReachedLast(q, k) ==
    \/ done[q] >= k
    \/ done[q] = k - 1 /\ pc[q] # "idle" /\ Len(colls[q]) = CollsOf(q)

\* The collective calls rank p has returned from.
Completed(p) == nissued[p] - (IF pc[p] \in WaitSites THEN 1 ELSE 0)

\* C16 (Operations do not overlap): no rank has issued a collective call of
\* operation k+1 while some rank has not reached the last collective call of
\* operation k; the numbers of collective calls any two ranks have completed,
\* and have issued, differ by at most one.
NoOverlap ==
    \A p, q \in Ranks :
        /\ \A k \in 1..issued : IssuedIn(p, k + 1) => ReachedLast(q, k)
        /\ Completed(p) - Completed(q) <= 1
        /\ nissued[p] - nissued[q] <= 1

\* Rank 1 waits in the barrier of the second operation, its second
\* collective call, while rank 0, back from the first operation, has not
\* entered it yet.
NoOverlapWitness ==
    /\ groupSize = 2
    /\ issued = 2
    /\ done[1] = 1 /\ pc[1] = "barrier"
    /\ done[0] = 1 /\ pc[0] # "barrier"
    /\ nissued[1] = 2 /\ nissued[0] = 1

\* Where the assignment of an integer beyond 32 bits went through, the
\* buffer holds it reduced to 32 bits, on rank 0 after the assignment and
\* on every rank after the broadcast, and a rank back from the scalar
\* operation has returned the reduced number, not the result of the Trial.
StoredReduced ==
    /\ \A p \in Ranks :
          (cur.name \in ScalarOps /\ mutated /\ IsWide(computed)) =>
              /\ (done[p] = issued - 1 /\ (pc[p] = "cc_item" \/ (p = 0 /\ pc[p] = "cc_bcast")))
                    => buffer[p] = Tensor("int", <<Reduce32(computed)>>)
              /\ Back(p) => ret[p] = PyInt(Reduce32(computed)) /\ ret[p] # computed
    /\ \A p \in Ranks :
          (pc[p] = "obj_empty" \/ (p = 0 /\ pc[p] = "obj_bcast_size")) =>
              /\ IsWide(shape)
              /\ size_buffer[p] = Tensor("int", <<Reduce32(shape)>>)

\* C17, as claimed: an integer beyond 32 bits raises no error; the value
\* stored is the result reduced to 32 bits and every rank returns it.
SilentWrap ==
    /\ StoredReduced
    /\ \A p \in Ranks : exc[p] # "RuntimeError"

\* C17 (No overflow check), amended: the facade checks nothing before the
\* assignment; the assignment of an integer beyond 32 bits either raises on
\* rank 0, which then has entered no broadcast of the operation, or stores
\* the result reduced to 32 bits, and then every rank that returns, returns
\* the stored value rather than the result of rank 0.
StoreUnchecked ==
    /\ StoredReduced
    /\ \A p \in Ranks :
          exc[p] = "RuntimeError" =>
              /\ p = 0
              /\ colls[p] = <<>>
              /\ IF call[p].name \in ScalarOps THEN IsWide(result[p]) ELSE IsWide(shape)

\* Both ranks are back from suggest_int with -2^31, the Trial having
\* suggested 2^31.
StoreUncheckedWitness ==
    /\ groupSize = 2
    /\ cur.name = "suggest_int"
    /\ computed = PyWide(32768, 0)
    /\ Back(0) /\ Back(1)
    /\ ret[0] = PyInt(-2147483647 - 1)
    /\ ret[1] = ret[0]

\* C18 (Deadlock freedom without failures), under SpecLive: when rank 0
\* holds a Trial and no Trial call raises, no rank ends with an exception
\* and every rank eventually is back from every one of the MaxOps
\* operations of the caller.
EventuallyReturns ==
    /\ [](\A p \in Ranks : pc[p] # "raised")
    /\ <>(\A p \in Ranks : pc[p] = "idle" /\ done[p] = MaxOps)

\* Both ranks are back from the last operation of the caller.
EventuallyReturnsWitness ==
    /\ groupSize = 2
    /\ issued = MaxOps
    /\ \A p \in Ranks : pc[p] = "idle" /\ done[p] = MaxOps

\* What the result v of rank 0 in call c comes out as on the far side of
\* the broadcast: a float rounded to torch.float, a bool as its number, an
\* int or an object as it is.
Sent(c, v) ==
    IF c.name \in ObjOps THEN v
    ELSE IF ScalarDtype[c.name] = "float" THEN PyFloat(F64Bytes(F32Bytes(v.s)))
    ELSE Number(v)

\* C19 (Independence from uninitialised buffers): what a rank, other than
\* 0 or not, returns from a value-producing operation is determined by the
\* operation and the result of rank 0 alone, whatever its fresh buffers
\* held and whatever an earlier operation left; so two runs that differ
\* only in that content return the same values on every rank.
BufferIndependence ==
    \A p \in Ranks :
        (Back(p) /\ cur.name \in ScalarOps \cup ObjOps) =>
            /\ mutated
            /\ ret[p] = Sent(cur, computed)

\* Rank 1, whose fresh buffers hold 7, is back from number, its second
\* operation, with the number of the Trial of rank 0.
BufferIndependenceWitness ==
    /\ groupSize = 2
    /\ garbage = 1
    /\ issued = 2
    /\ cur.name = "number"
    /\ Back(1)
    /\ ret[1] = PyInt(3)
    /\ TorchEmpty(1, "int", garbage).data = <<7>>

====
